---- MODULE Spec2Model ----
(***************************************************************************)
(* Model of glove-word-vectors.ipynb: the word-vector table (wv_dict,      *)
(* wv_arr), get_word, closest, print_tuples and analogy.                   *)
(*                                                                         *)
(* Words are the integers 1..N in the iteration order of wv_dict; word w   *)
(* is stored at index w - 1 of wv_arr.  Word 0 and every word above N are  *)
(* absent from the table.  The vector of the first word is arbitrary, the  *)
(* vectors of the other words follow a repeating pattern.  Vector          *)
(* components are small integers and a distance is held in thousandths     *)
(* (the floor of 1000 * sqrt(sum of squares)), which orders distances      *)
(* exactly as torch.dist does on the modelled range.                       *)
(***************************************************************************)
EXTENDS Integers, Sequences, FiniteSets, TLC

\* ---- bounds of the model ----
Dim == 1          \* components per vector
MaxVal == 2       \* components of the first word's vector range over 0..MaxVal
SmallTail == 2    \* words after the first in a small vocabulary
TailLen == 10     \* words after the first in a large vocabulary
MaxArg == 3       \* word arguments range over 0..MaxArg
MaxNeg == 1       \* the least n is -MaxNeg
MaxSmallN == 1    \* the small n are -MaxNeg..MaxSmallN
MaxN == 11        \* the large n are DefaultN - 3..MaxN

\* ---- constants of the program ----
DefaultN == 10          \* def closest(d, n=10)
AnalogyDefaultN == 5    \* def analogy(w1, w2, w3, n=5, filter_given=True)

Min(a, b) == IF a <= b THEN a ELSE b
Max(a, b) == IF a >= b THEN a ELSE b

Vecs == [1..Dim -> 0..MaxVal]
NSet ==
  ((0 - MaxNeg)..MaxSmallN) \cup {AnalogyDefaultN} \cup ((DefaultN - 3)..MaxN)
ArgWords == 0..MaxArg

VARIABLES wv_dict, wv_arr, pc, call, ret, stdout
vars == <<wv_dict, wv_arr, pc, call, ret, stdout>>

\* ---- vector arithmetic (torch tensors) ----
VSub(a, b) == [k \in 1..Dim |-> a[k] - b[k]]
VAdd(a, b) == [k \in 1..Dim |-> a[k] + b[k]]

RECURSIVE SumSq(_, _, _)
SumSq(a, b, k) ==
  IF k = 0 THEN 0 ELSE SumSq(a, b, k - 1) + (a[k] - b[k]) * (a[k] - b[k])

RECURSIVE ISqrt(_, _, _)
\* the largest r in lo..hi with r * r <= x
ISqrt(x, lo, hi) ==
  IF lo >= hi THEN lo
  ELSE LET mid == (lo + hi + 1) \div 2
       IN IF mid * mid <= x THEN ISqrt(x, mid, hi) ELSE ISqrt(x, lo, mid - 1)

\* a component of a query is at most 2 * (MaxVal + 1) and at least
\* -(MaxVal + 1), a stored component lies in 0..MaxVal + 1
MaxSumSq == Dim * (3 * (MaxVal + 1)) * (3 * (MaxVal + 1))

\* sqrt in thousandths, tabulated over the sums of squares that occur
SqrtTab == [x \in 0..MaxSumSq |-> ISqrt(x * 1000000, 0, 46340)]

\* torch.dist(a, b): the Euclidean distance, in thousandths
dist(a, b) == SqrtTab[SumSq(a, b, Dim)]

\* ---- the table ----
\* the vector of the j-th word after the first: the components cycle through
\* 0..MaxVal + 1, so that vectors repeat and distances tie
TailVec(j) == [k \in 1..Dim |-> (j + k) % (MaxVal + 2)]
TailLens == {SmallTail, TailLen}
WithTail(first, t) == <<first>> \o [j \in 1..t |-> TailVec(j)]
ArrOf(s) == [i \in 0..(Len(s) - 1) |-> s[i + 1]]
DictOf(s) == [w \in 1..Len(s) |-> w - 1]

\* for w in wv_dict: the keys in iteration order
Keys(dict) == [i \in 1..Cardinality(DOMAIN dict) |-> i]

\* wv_arr[wv_dict[word]]; a missing key raises KeyError
get_word_fallback(dict, arr, word) ==
  IF word \in DOMAIN dict
  THEN [ok |-> TRUE, v |-> arr[dict[word]]]
  ELSE [ok |-> TRUE, v |-> [k \in 1..Dim |-> 0]]
get_word(dict, arr, word) ==
  IF word \in DOMAIN dict
  THEN [ok |-> TRUE, v |-> arr[dict[word]]]
  ELSE [ok |-> FALSE, v |-> <<>>]

\* ---- closest ----
\* [(w, torch.dist(d, get_word(w))) for w in wv_dict]
all_dists(dict, arr, d) ==
  LET ks == Keys(dict)
  IN [i \in 1..Len(ks) |-> <<ks[i], dist(d, get_word(dict, arr, ks[i]).v)>>]

\* t is put into the sorted s behind every element whose key is <= its own
InsertAfterEqual(s, t) ==
  LET p == Cardinality({i \in 1..Len(s) : s[i][2] <= t[2]})
  IN SubSeq(s, 1, p) \o <<t>> \o SubSeq(s, p + 1, Len(s))

\* t is put into the sorted s before every element whose key is >= its own
InsertBeforeEqual(s, t) ==
  LET p == Cardinality({i \in 1..Len(s) : s[i][2] < t[2]})
  IN SubSeq(s, 1, p) \o <<t>> \o SubSeq(s, p + 1, Len(s))

RECURSIVE SortUnstable(_, _)
SortUnstable(s, k) ==
  IF k = 0 THEN <<>> ELSE InsertBeforeEqual(SortUnstable(s, k - 1), s[k])

RECURSIVE SortFirst(_, _)
\* the first k elements of s, sorted by key, equal keys in their order in s
SortFirst(s, k) ==
  IF k = 0 THEN <<>> ELSE InsertAfterEqual(SortFirst(s, k - 1), s[k])

sorted_unstable(s) == SortUnstable(s, Len(s))
\* sorted(all_dists, key=lambda t: t[1]): ascending and stable
sorted(s) == SortFirst(s, Len(s))

\* the slice s[:n] of Python: a negative n counts from the end
SliceTo_clamped(s, n) == SubSeq(s, 1, Max(0, Min(n, Len(s))))
SliceTo(s, n) ==
  IF n >= 0 THEN SubSeq(s, 1, Min(n, Len(s)))
  ELSE SubSeq(s, 1, Max(0, Len(s) + n))

Reverse(s) == [i \in 1..Len(s) |-> s[Len(s) + 1 - i]]

closest_descending(dict, arr, d, n) ==
  SliceTo(Reverse(sorted(all_dists(dict, arr, d))), n)
closest(dict, arr, d, n) == SliceTo(sorted(all_dists(dict, arr, d)), n)

\* ---- print_tuples ----
\* one line '(%.4f) %s' % (tuple[1], tuple[0]) per tuple, in order
print_tuples(tuples) ==
  [i \in 1..Len(tuples) |-> [kind |-> "tuple", d |-> tuples[i][2], w |-> tuples[i][1]]]

\* ---- analogy ----
\* print('\n[%s : %s :: %s : (?)]' % (w1, w2, w3))
Header(w1, w2, w3) == [kind |-> "header", d |-> 0, w |-> <<w1, w2, w3>>]

RECURSIVE SelectTuples(_, _, _)
\* the tuples among the first k of s whose word is not a given one
SelectTuples(s, given, k) ==
  IF k = 0 THEN <<>>
  ELSE IF s[k][1] \in given THEN SelectTuples(s, given, k - 1)
  ELSE Append(SelectTuples(s, given, k - 1), s[k])

\* [t for t in closest_words if t[0] not in [w1, w2, w3]]
FilterGiven_two(s, w1, w2, w3) == SelectTuples(s, {w1, w2}, Len(s))
FilterGiven(s, w1, w2, w3) == SelectTuples(s, {w1, w2, w3}, Len(s))

\* get_word(w2) - get_word(w1) + get_word(w3)
Query(dict, arr, w1, w2, w3) ==
  VAdd(VSub(get_word(dict, arr, w2).v, get_word(dict, arr, w1).v),
       get_word(dict, arr, w3).v)

\* the arithmetic of the query allocates new tensors: the rows of wv_arr
\* that get_word returned are left as they were
ArrAfterQuery_inplace(dict, arr, w1, w2, w3) ==
  IF {w1, w2, w3} \subseteq DOMAIN dict
  THEN [arr EXCEPT ![dict[w2]] = Query(dict, arr, w1, w2, w3)]
  ELSE arr
ArrAfterQuery(dict, arr, w1, w2, w3) == arr

NoneRet == [kind |-> "None", val |-> <<>>]
KeyError == [kind |-> "KeyError", val |-> <<>>]
Value(v) == [kind |-> "value", val |-> v]

\* the lines analogy prints after the header when all three words are known
AnalogyTuples_n3(dict, arr, w1, w2, w3, n, fg) ==
  LET closest_words == closest(dict, arr, Query(dict, arr, w1, w2, w3), n + 3)
      kept == IF fg THEN FilterGiven(closest_words, w1, w2, w3) ELSE closest_words
  IN SliceTo(kept, n)
AnalogyTuples(dict, arr, w1, w2, w3, n, fg) ==
  LET closest_words == closest(dict, arr, Query(dict, arr, w1, w2, w3), DefaultN)
      kept == IF fg THEN FilterGiven(closest_words, w1, w2, w3) ELSE closest_words
  IN SliceTo(kept, n)

\* the whole of analogy: what it returns and what it has printed by then
analogy(dict, arr, w1, w2, w3, n, fg) ==
  IF    get_word(dict, arr, w2).ok
     /\ get_word(dict, arr, w1).ok
     /\ get_word(dict, arr, w3).ok
  THEN [ret |-> NoneRet,
        out |-> <<Header(w1, w2, w3)>>
                \o print_tuples(AnalogyTuples(dict, arr, w1, w2, w3, n, fg))]
  ELSE [ret |-> KeyError, out |-> <<Header(w1, w2, w3)>>]

\* closest(get_word(word), n), as in the cell print_tuples(closest(get_word('google')))
closest_of_word(dict, arr, word, n) ==
  IF get_word(dict, arr, word).ok
  THEN Value(closest(dict, arr, get_word(dict, arr, word).v, n))
  ELSE KeyError

\* ---- the notebook session ----
NoCall == [op |-> "none", w1 |-> 0, w2 |-> 0, w3 |-> 0, d |-> <<>>, n |-> 0, fg |-> FALSE]

\* the outcome of evaluating a cell
Run(dict, arr, c) ==
  CASE c.op = "get_word" ->
         [ret |-> IF get_word(dict, arr, c.w1).ok
                  THEN Value(get_word(dict, arr, c.w1).v) ELSE KeyError,
          out |-> <<>>,
          arr |-> arr]
    [] c.op = "closest" ->
         [ret |-> Value(closest(dict, arr, c.d, c.n)), out |-> <<>>, arr |-> arr]
    [] c.op = "closest_word" ->
         [ret |-> closest_of_word(dict, arr, c.w1, c.n), out |-> <<>>, arr |-> arr]
    [] c.op = "analogy" ->
         LET a == analogy(dict, arr, c.w1, c.w2, c.w3, c.n, c.fg)
         IN [ret |-> a.ret, out |-> a.out,
             arr |-> ArrAfterQuery(dict, arr, c.w1, c.w2, c.w3)]

Eval(c, nextpc) ==
  LET r == Run(wv_dict, wv_arr, c)
  IN /\ call' = c
     /\ ret' = r.ret
     /\ stdout' = r.out
     /\ wv_arr' = r.arr
     /\ pc' = nextpc
     /\ UNCHANGED wv_dict

\* wv_dict, wv_arr, wv_size = load_word_vectors('.', 'glove.6B', 100)
Init ==
  /\ \E first \in Vecs : \E t \in TailLens :
        /\ wv_arr = ArrOf(WithTail(first, t))
        /\ wv_dict = DictOf(WithTail(first, t))
  /\ pc = "idle"
  /\ call = NoCall
  /\ ret = NoneRet
  /\ stdout = <<>>

\* a cell that calls get_word(w)
GetWord ==
  /\ pc = "idle"
  /\ \E w \in ArgWords :
       Eval([NoCall EXCEPT !.op = "get_word", !.w1 = w], "returned")

\* a cell that calls closest(d, n)
Closest ==
  /\ pc = "idle"
  /\ \E d \in Vecs : \E n \in NSet :
       Eval([NoCall EXCEPT !.op = "closest", !.d = d, !.n = n], "returned")

\* a cell that calls closest(get_word(w), n)
ClosestOfWord ==
  /\ pc = "idle"
  /\ \E w \in ArgWords : \E n \in NSet :
       Eval([NoCall EXCEPT !.op = "closest_word", !.w1 = w, !.n = n], "returned")

\* a cell that calls analogy(w1, w2, w3, n, filter_given)
Analogy ==
  /\ pc = "idle"
  /\ \E w1 \in ArgWords : \E w2 \in ArgWords : \E w3 \in ArgWords :
       \E n \in NSet : \E fg \in BOOLEAN :
         Eval([op |-> "analogy", w1 |-> w1, w2 |-> w2, w3 |-> w3,
               d |-> <<>>, n |-> n, fg |-> fg], "returned")

\* the same cell is evaluated a second time
Again ==
  /\ pc = "returned"
  /\ Eval(call, "rerun")

\* the next cell starts from a clean output area
NextCell ==
  /\ pc \in {"returned", "rerun"}
  /\ pc' = "idle"
  /\ call' = NoCall
  /\ ret' = NoneRet
  /\ stdout' = <<>>
  /\ UNCHANGED <<wv_dict, wv_arr>>

Next ==
  \/ GetWord
  \/ Closest
  \/ ClosestOfWord
  \/ Analogy
  \/ Again
  \/ NextCell

Spec == Init /\ [][Next]_vars

\* ---- vocabulary of the properties ----
N == Cardinality(DOMAIN wv_dict)
Called(op) == pc # "idle" /\ call.op = op
Given == {call.w1, call.w2, call.w3}
AllKnown == Given \subseteq DOMAIN wv_dict
VecOf(w) == wv_arr[wv_dict[w]]
KeyPos(w) == CHOOSE p \in 1..N : Keys(wv_dict)[p] = w

\* the (word, distance) entries analogy printed below its header
Printed == [i \in 1..(Len(stdout) - 1) |-> <<stdout[i + 1].w, stdout[i + 1].d>>]

\* a call of closest that returned a list, and the vector it was given
ClosestReturned ==
  \/ Called("closest")
  \/ Called("closest_word") /\ call.w1 \in DOMAIN wv_dict
ClosestArg == IF call.op = "closest" THEN call.d ELSE VecOf(call.w1)

AnalogyQuery == Query(wv_dict, wv_arr, call.w1, call.w2, call.w3)
TenNearest == closest(wv_dict, wv_arr, AnalogyQuery, DefaultN)

RECURSIVE IsSubseq(_, _)
IsSubseq(a, b) ==
  IF a = <<>> THEN TRUE
  ELSE IF b = <<>> THEN FALSE
  ELSE IF Head(a) = Head(b) THEN IsSubseq(Tail(a), Tail(b))
  ELSE IsSubseq(a, Tail(b))

\* the first word, in iteration order, that has the same vector as w
FirstSameVec(w) ==
  Keys(wv_dict)[CHOOSE p \in 1..N :
                  /\ VecOf(Keys(wv_dict)[p]) = VecOf(w)
                  /\ \A r \in 1..(p - 1) : VecOf(Keys(wv_dict)[r]) # VecOf(w)]

C1_Case == Called("closest_word") /\ call.n = 1 /\ call.w1 \in DOMAIN wv_dict

\* C1 (as stated): for every word w of the table, also when another word has
\* the same vector, closest(get_word(w), 1) is exactly [(w, 0)].
C1_Original == C1_Case => ret = Value(<< <<call.w1, 0>> >>)

\* C1 (amended): for every word w of the table, closest(get_word(w), 1) is
\* exactly [(u, 0)], u being the first word in iteration order whose vector
\* equals the vector of w (u = w when no earlier word shares that vector).
C1_FirstOfEqualVectors == C1_Case => ret = Value(<< <<FirstSameVec(call.w1), 0>> >>)

C1_Witness == C1_Case /\ FirstSameVec(call.w1) # call.w1 /\ N > DefaultN

C3_Original == (ClosestReturned /\ call.n <= 0) => ret.val = <<>>

\* C4 (as stated): with w1, w2, w3 in the table, n >= 0 and filter_given
\* true, analogy outputs exactly n entries whenever the table holds at least
\* n + 3 words.
C4_Original ==
  (Called("analogy") /\ AllKnown /\ call.fg /\ call.n >= 0 /\ N >= call.n + 3)
    => Len(Printed) = call.n

C5_Case == Called("analogy") /\ AllKnown /\ call.fg

\* C5: with filter_given true, no entry analogy outputs has a word equal to
\* w1, w2 or w3, whatever n is.
C5_NoGivenWord == C5_Case => \A i \in 1..Len(Printed) : Printed[i][1] \notin Given

C5_Witness ==
  /\ C5_Case
  /\ Len(Printed) >= 1
  /\ TenNearest[1][1] \in Given
  /\ Cardinality(Given) = 3

\* the result the statement of C6 refers to
C6_Reference ==
  IF call.fg
  THEN SliceTo(FilterGiven(closest(wv_dict, wv_arr, AnalogyQuery, call.n + 3),
                           call.w1, call.w2, call.w3), call.n)
  ELSE closest(wv_dict, wv_arr, AnalogyQuery, call.n)

\* C6 (as stated): with w1, w2, w3 in the table and n >= 0, analogy outputs
\* the first n entries of the n + 3 nearest neighbours of
\* vector(w2) - vector(w1) + vector(w3) without the given words when
\* filter_given is true, and exactly the n nearest neighbours when it is false.
C6_Original ==
  (Called("analogy") /\ AllKnown /\ call.n >= 0) => Printed = C6_Reference

C7_Case == Called("analogy") /\ ~AllKnown
C7_GetWordCase == Called("get_word") /\ call.w1 \notin DOMAIN wv_dict

C9_Case == ClosestReturned /\ call.n >= 0

\* C9: for n >= 0 the entries closest returns are in ascending order of
\* distance, entries of equal distance are in the iteration order of the
\* table, and no word left out is nearer than a word returned.
C9_SortedStableNearest ==
  C9_Case =>
    LET r == ret.val
        words == {r[i][1] : i \in 1..Len(r)}
    IN /\ \A i \in 1..Len(r) : \A j \in (i + 1)..Len(r) :
            /\ r[i][2] <= r[j][2]
            /\ r[i][2] = r[j][2] => KeyPos(r[i][1]) < KeyPos(r[j][1])
       /\ \A w \in (DOMAIN wv_dict) \ words : \A i \in 1..Len(r) :
            r[i][2] <= dist(ClosestArg, VecOf(w))

C9_Witness ==
  /\ C9_Case
  /\ Len(ret.val) < N
  /\ \E i \in 1..(Len(ret.val) - 1) : ret.val[i][2] = ret.val[i + 1][2]
  /\ \E i \in 1..(Len(ret.val) - 1) : ret.val[i][2] < ret.val[i + 1][2]
  /\ \E w \in DOMAIN wv_dict :
       /\ w \notin {ret.val[i][1] : i \in 1..Len(ret.val)}
       /\ dist(ClosestArg, VecOf(w)) = ret.val[Len(ret.val)][2]

C10_Case == Called("analogy") /\ AllKnown /\ call.n >= 0

\* C10: with w1, w2, w3 in the table and n >= 0, the entries analogy outputs
\* are an order-preserving subsequence of the 10 nearest neighbours of the
\* query vector, so there are never more than min(n, 10) of them.
C10_WithinTenNearest ==
  C10_Case =>
    /\ IsSubseq(Printed, TenNearest)
    /\ Len(Printed) <= Min(call.n, DefaultN)

C10_Witness ==
  /\ C10_Case
  /\ call.n > DefaultN
  /\ N > DefaultN
  /\ Len(Printed) = DefaultN

====
